---- MODULE Spec2Model ----
(***************************************************************************)
(* The chat component of frontend/src (the Vue component "Chat"): its      *)
(* data(), and the handlers sendMessage, switchConversation,               *)
(* deleteConversation and loadConversations.  JavaScript runs each handler *)
(* to its next await without interruption, so an action is the code        *)
(* between two awaits; the for-loop over the pieces of one chunk is        *)
(* stepped piece by piece, and nothing else runs while it is under way.    *)
(*                                                                         *)
(* Text is a sequence of letters ("" is << >>, + is \o).  The response     *)
(* body is a sequence of tokens: "data:" and " " make up the frame prefix  *)
(* 'data: ', a body token and "}" make up one JSON object, "\n" is a line  *)
(* feed.  A read may cut the body between any two tokens.                  *)
(***************************************************************************)
EXTENDS Integers, Sequences, FiniteSets, TLC

\* ------------------------------------------------------------------ bounds
MaxFrames == 4         \* frames the server sends in one response (Spec)
MaxBuffered == 2       \* frames sent and not yet read
MaxChunkedFrames == 2  \* frames in one response body (SpecChunks)
MaxSwitchFrames == 1   \* frames the server sends in one response (SpecSwitch)
MaxSends == 2          \* accepted sendMessage calls in one behaviour
MaxCalls == 2          \* sendMessage activations that can exist at once
MaxPending == 1        \* history requests in flight at once
MaxConvs == 2          \* conversations the backend holds
MaxMixedFrames == 3    \* frames in one response body (SpecFrames)
MaxResidualFrames == 2 \* frames in one response body (SpecResidual)
MaxRacing == 2         \* history requests in flight at once (SpecRace)
MaxLiveFrames == 2     \* frames in one response body (SpecLive)

Null == 0           \* currentConversationId: null
ConvIds == 1..MaxConvs
Calls == 1..MaxCalls

\* ------------------------------------------------------------------ text
Timestamp == "t"    \* new Date().toLocaleString(), entry.timestamp

\* String.prototype.trim() is non-empty
NonBlank(text) == \E i \in 1..Len(text) : text[i] # " "

\* what the user can type into the input
Typed == {<<"h">>, <<" ">>}

\* ------------------------------------------------------------------ wire
Prefix == <<"data:", " ">>
Terminator == <<"\n", "\n">>
Whitespace == {" ", "\n"}

\* JSON.parse of one complete object: the body token and what it decodes to
NoText == << >>
JSONTable ==
  [b \in {"R:x", "R:y", "AS", "A:x", "A:y", "A:", "DONE", "ERR", "PING"} |->
     CASE b = "R:x"  -> [type |-> "reasoning", content |-> <<"x">>, error |-> NoText]
       [] b = "R:y"  -> [type |-> "reasoning", content |-> <<"y">>, error |-> NoText]
       [] b = "AS"   -> [type |-> "answer_start", content |-> NoText, error |-> NoText]
       [] b = "A:x"  -> [type |-> "answer", content |-> <<"x">>, error |-> NoText]
       [] b = "A:y"  -> [type |-> "answer", content |-> <<"y">>, error |-> NoText]
       [] b = "A:"   -> [type |-> "answer", content |-> NoText, error |-> NoText]
       [] b = "DONE" -> [type |-> "done", content |-> NoText, error |-> NoText]
       [] b = "ERR"  -> [type |-> "error", content |-> NoText, error |-> <<"boom">>]
       [] b = "PING" -> [type |-> "ping", content |-> NoText, error |-> NoText]]

RECURSIVE TrimStart(_)
TrimStart(s) ==
  IF s # << >> /\ Head(s) \in Whitespace THEN TrimStart(Tail(s)) ELSE s

RECURSIVE TrimEnd(_)
TrimEnd(s) ==
  IF s # << >> /\ s[Len(s)] \in Whitespace
    THEN TrimEnd(SubSeq(s, 1, Len(s) - 1)) ELSE s

\* JSON.parse(text): white space around the value is allowed, anything else
\* than one complete object is a SyntaxError
ParseJSON(text) ==
  LET t == TrimEnd(TrimStart(text)) IN
  IF Len(t) = 2 /\ t[1] \in DOMAIN JSONTable /\ t[2] = "}"
    THEN [ok |-> TRUE, data |-> JSONTable[t[1]]]
    ELSE [ok |-> FALSE,
          data |-> [type |-> "", content |-> NoText, error |-> NoText]]

\* line.startsWith('data: ')
StartsWith(line, p) ==
  Len(line) >= Len(p) /\ SubSeq(line, 1, Len(p)) = p

\* line.slice(6)
Slice(line, p) == SubSeq(line, Len(p) + 1, Len(line))

\* index of the first "\n\n" in s, 0 when there is none
FirstTerminator(s) ==
  LET hits == {i \in 1..(Len(s) - 1) : s[i] = "\n" /\ s[i + 1] = "\n"} IN
  IF hits = {} THEN 0 ELSE CHOOSE i \in hits : \A j \in hits : i <= j

\* chunk.split('\n\n')
RECURSIVE Split(_)
Split(s) ==
  LET i == FirstTerminator(s) IN
  IF i = 0 THEN <<s>>
  ELSE <<SubSeq(s, 1, i - 1)>> \o Split(SubSeq(s, i + 2, Len(s)))

\* the frames a response body is made of
FrameOf(b) == Prefix \o <<b, "}">> \o Terminator
Keepalive == <<":">> \o Terminator
Malformed == Prefix \o <<"{oops", "}">> \o Terminator
WellFormedFrames == {FrameOf(b) : b \in DOMAIN JSONTable}
Frames == WellFormedFrames \cup {Keepalive, Malformed}

RECURSIVE Flatten(_)
Flatten(fs) == IF fs = << >> THEN << >> ELSE Head(fs) \o Flatten(Tail(fs))

SeqsUpTo(S, n) == UNION {[1..k -> S] : k \in 0..n}

\* every frame is FrameLen tokens long but the keep-alive comment
FrameLen == Len(Malformed)

\* reads that return whole frames
FrameCuts == {FrameLen * k : k \in 1..MaxBuffered}

\* Spec: the events of the protocol and a broken frame
ReducerFrames ==
  {FrameOf(b) : b \in {"R:x", "R:y", "AS", "A:x", "A:y", "DONE", "ERR"}}
    \cup {Malformed}

\* SpecChunks: a body of any frames, cut anywhere
ChunkedBodies == SeqsUpTo(Frames, MaxChunkedFrames)
AnyCuts == 1..(FrameLen * MaxChunkedFrames)

\* SpecSwitch
SwitchFrames == {FrameOf(b) : b \in {"R:x", "AS", "A:x", "DONE", "ERR"}}
                  \cup {Malformed}

\* ------------------------------------------------------------------ messages
\* One element of this.messages.  A field the code leaves out of an object
\* literal reads as undefined there; here it holds the falsy value of its type.
Message(content, reasoning, isUser, isError, isStreaming, showReasoning) ==
  [content |-> content, reasoning |-> reasoning, isUser |-> isUser,
   isError |-> isError, isStreaming |-> isStreaming, isAnswering |-> FALSE,
   showReasoning |-> showReasoning, timestamp |-> Timestamp]

UserMessage(text) == Message(text, NoText, TRUE, FALSE, FALSE, FALSE)
Placeholder == Message(NoText, NoText, FALSE, FALSE, TRUE, TRUE)
FinalMessage(content, reasoning) ==
  Message(content, reasoning, FALSE, FALSE, FALSE, TRUE)

\* the fixed text before ${error.message} in the template literal of the catch
ErrorPrefix == <<"send-failed: ">>
ErrorMessageUnflagged(err) ==
  Message(ErrorPrefix \o err, NoText, FALSE, FALSE, FALSE, FALSE)
ErrorMessage(err) == Message(ErrorPrefix \o err, NoText, FALSE, TRUE, FALSE, FALSE)

\* error.message of what the runtime throws
SyntaxError == <<"SyntaxError">>
TypeError == <<"TypeError">>
NetworkError == <<"NetworkError">>

\* the history the backend returns for a conversation, and its mapping
HistoryEntry(conv) == [user |-> <<"q">>, ai |-> <<"a", ToString(conv)>>,
                       reasoning |-> <<"r">>, timestamp |-> Timestamp]
History(conv) == <<HistoryEntry(conv)>>

RECURSIVE HistoryMessages(_)
HistoryMessages(history) ==
  IF history = << >> THEN << >>
  ELSE <<[UserMessage(Head(history).user) EXCEPT
            !.timestamp = Head(history).timestamp],
         [Message(Head(history).ai, Head(history).reasoning,
                  FALSE, FALSE, FALSE, FALSE) EXCEPT
            !.timestamp = Head(history).timestamp]>>
       \o HistoryMessages(Tail(history))

\* data.messages of a done event: the persisted messages of the conversation
\* the request named, after that request
Snapshot(conv, req) == [of |-> conv, req |-> req]

\* GET /conversations
ServerConversations ==
  [i \in 1..MaxConvs |-> [id |-> i, messages |-> Snapshot(i, 0)]]

\* ------------------------------------------------------------------ state
VARIABLES
  messages,               \* data().messages
  newMessage,             \* data().newMessage
  isLoading,              \* data().isLoading
  conversations,          \* data().conversations
  currentConversationId,  \* data().currentConversationId
  isStreamingEnabled,     \* data().isStreamingEnabled
  calls,                  \* the activations of sendMessage
  pendingHistory,         \* history requests of switchConversation in flight
  pendingDelete,          \* DELETE requests of deleteConversation in flight
  loadPending,            \* the request of loadConversations is in flight
  dispatched              \* POST /chat requests issued

vars == <<messages, newMessage, isLoading, conversations, currentConversationId,
          isStreamingEnabled, calls, pendingHistory, pendingDelete, loadPending,
          dispatched>>

\* the component's data, without the bookkeeping of the requests
data == <<messages, newMessage, isLoading, conversations, currentConversationId,
          isStreamingEnabled>>

\* What has reached the switch of one call: the reasoning and the answer texts
\* in their order of arrival, and how far the events follow the order
\* reasoning* answer_start answer* done ("R", "A", "done"; "off" once they
\* have left it).
NothingDelivered == [reasoning |-> NoText, answer |-> NoText, shape |-> "R"]

Deliver(dl, d) ==
  [reasoning |-> IF d.type = "reasoning" THEN dl.reasoning \o d.content
                 ELSE dl.reasoning,
   answer |-> IF d.type = "answer" THEN dl.answer \o d.content ELSE dl.answer,
   shape |-> CASE d.type = "reasoning" /\ dl.shape = "R" -> "R"
               [] d.type = "answer_start" /\ dl.shape = "R" -> "A"
               [] d.type = "answer" /\ dl.shape = "A" -> "A"
               [] d.type = "done" /\ dl.shape = "A" -> "done"
               [] OTHER -> "off"]

\* One activation of sendMessage: where it stands, its locals, the part of the
\* response that has arrived and is not read yet (wire), the pieces of the
\* chunk being looped over (lines), the error.message the catch got; and for
\* the properties, the body the response came with, the number of frames sent
\* after it, and what has reached the switch.
IdleCall ==
  [pc |-> "idle", streaming |-> FALSE, reqConv |-> Null, req |-> 0,
   wire |-> << >>, lines |-> << >>,
   fullResponse |-> NoText, fullReasoning |-> NoText, isComplete |-> FALSE,
   outcome |-> "none", error |-> NoText, body |-> << >>, frames |-> 0,
   delivered |-> NothingDelivered]

InFlight == {"fetch", "read", "loop"}

\* no for-loop over a chunk is under way: the event loop can run something else
Quiescent == \A c \in Calls : calls[c].pc # "loop"

\* data(), with the request of mounted() under way; the check box of the
\* streaming mode is in either position
InitMounted ==
  /\ messages = << >>
  /\ newMessage = NoText
  /\ isLoading = FALSE
  /\ conversations = << >>
  /\ currentConversationId = Null
  /\ isStreamingEnabled \in BOOLEAN
  /\ calls = [c \in Calls |-> IdleCall]
  /\ pendingHistory = [i \in ConvIds |-> 0]
  /\ pendingDelete = {}
  /\ loadPending = TRUE
  /\ dispatched = 0

ConversationIds == {conversations[i].id : i \in 1..Len(conversations)}

\* ------------------------------------------------------------------ loadConversations
LoadConversationsResolve ==
  /\ loadPending /\ Quiescent
  /\ loadPending' = FALSE
  /\ conversations' = ServerConversations
  /\ UNCHANGED <<messages, newMessage, isLoading, currentConversationId,
                 isStreamingEnabled, calls, pendingHistory, pendingDelete,
                 dispatched>>

LoadConversationsReject ==
  /\ loadPending /\ Quiescent
  /\ loadPending' = FALSE
  /\ UNCHANGED <<messages, newMessage, isLoading, conversations,
                 currentConversationId, isStreamingEnabled, calls,
                 pendingHistory, pendingDelete, dispatched>>

\* ------------------------------------------------------------------ switchConversation
PendingTotal(p) ==
  LET RECURSIVE Sum(_)
      Sum(S) == IF S = {} THEN 0
                ELSE LET i == CHOOSE j \in S : TRUE IN p[i] + Sum(S \ {i})
  IN Sum(ConvIds)

SwitchConversation(conversationId) ==
  /\ Quiescent
  /\ conversationId \in ConversationIds
  /\ currentConversationId' = conversationId
  /\ messages' = << >>
  /\ newMessage' = NoText
  /\ pendingHistory' = [pendingHistory EXCEPT ![conversationId] = @ + 1]
  /\ UNCHANGED <<isLoading, conversations, isStreamingEnabled, calls,
                 pendingDelete, loadPending, dispatched>>

HistoryResolve(conversationId) ==
  /\ Quiescent
  /\ pendingHistory[conversationId] > 0
  /\ pendingHistory' = [pendingHistory EXCEPT ![conversationId] = @ - 1]
  /\ messages' = HistoryMessages(History(conversationId))
  /\ UNCHANGED <<newMessage, isLoading, conversations, currentConversationId,
                 isStreamingEnabled, calls, pendingDelete, loadPending,
                 dispatched>>

HistoryReject(conversationId) ==
  /\ Quiescent
  /\ pendingHistory[conversationId] > 0
  /\ pendingHistory' = [pendingHistory EXCEPT ![conversationId] = @ - 1]
  /\ UNCHANGED <<messages, newMessage, isLoading, conversations,
                 currentConversationId, isStreamingEnabled, calls,
                 pendingDelete, loadPending, dispatched>>

\* ------------------------------------------------------------------ deleteConversation
DeleteConversation(conversationId) ==
  /\ Quiescent
  /\ conversationId \in ConversationIds
  /\ conversationId \notin pendingDelete
  /\ pendingDelete' = pendingDelete \cup {conversationId}
  /\ UNCHANGED <<messages, newMessage, isLoading, conversations,
                 currentConversationId, isStreamingEnabled, calls,
                 pendingHistory, loadPending, dispatched>>

DeleteResolve(conversationId) ==
  /\ Quiescent
  /\ conversationId \in pendingDelete
  /\ pendingDelete' = pendingDelete \ {conversationId}
  /\ conversations' = SelectSeq(conversations, LAMBDA c : c.id # conversationId)
  /\ IF currentConversationId = conversationId
       THEN currentConversationId' = Null /\ messages' = << >>
       ELSE UNCHANGED <<currentConversationId, messages>>
  /\ UNCHANGED <<newMessage, isLoading, isStreamingEnabled, calls,
                 pendingHistory, loadPending, dispatched>>

DeleteReject(conversationId) ==
  /\ Quiescent
  /\ conversationId \in pendingDelete
  /\ pendingDelete' = pendingDelete \ {conversationId}
  /\ UNCHANGED <<messages, newMessage, isLoading, conversations,
                 currentConversationId, isStreamingEnabled, calls,
                 pendingHistory, loadPending, dispatched>>

\* ------------------------------------------------------------------ the input
\* :disabled="isLoading || !currentConversationId"
InputDisabled == isLoading \/ currentConversationId = Null

\* v-model="newMessage"
TypeMessage(text) ==
  /\ Quiescent
  /\ ~InputDisabled
  /\ newMessage # text
  /\ newMessage' = text
  /\ UNCHANGED <<messages, isLoading, conversations, currentConversationId,
                 isStreamingEnabled, calls, pendingHistory, pendingDelete,
                 loadPending, dispatched>>

\* v-model="isStreamingEnabled"
ToggleStreaming ==
  /\ Quiescent
  /\ isStreamingEnabled' = ~isStreamingEnabled
  /\ UNCHANGED <<messages, newMessage, isLoading, conversations,
                 currentConversationId, calls, pendingHistory, pendingDelete,
                 loadPending, dispatched>>

\* ------------------------------------------------------------------ sendMessage
\* if (!this.newMessage.trim() || this.isLoading || !this.currentConversationId) return
SendGuardAnyConversation ==
  NonBlank(newMessage) /\ ~isLoading
SendGuard ==
  NonBlank(newMessage) /\ ~isLoading /\ currentConversationId # Null

\* this.isLoading = true on entry
LoadingNotSet == FALSE
LoadingOnEntry == TRUE

\* the activation a new call gets
FreeCalls == {c \in Calls : calls[c].pc \notin InFlight}
NewCall == CHOOSE c \in FreeCalls : \A d \in FreeCalls : c <= d

\* entry to the fetch: take the text, raise isLoading, push the user message,
\* post the request
SendMessage ==
  /\ Quiescent
  /\ SendGuard
  /\ FreeCalls # {}
  /\ newMessage' = NoText
  /\ isLoading' = LoadingOnEntry
  /\ messages' = Append(messages, UserMessage(newMessage))
  /\ dispatched' = dispatched + 1
  /\ calls' = [calls EXCEPT ![NewCall] =
                 [IdleCall EXCEPT !.pc = "fetch",
                                  !.reqConv = currentConversationId,
                                  !.req = dispatched + 1]]
  /\ UNCHANGED <<conversations, currentConversationId, isStreamingEnabled,
                 pendingHistory, pendingDelete, loadPending>>

\* the call returns at the guard: an activation that has returned at once
SendMessageIgnored ==
  /\ Quiescent
  /\ ~SendGuard
  /\ FreeCalls # {}
  /\ calls' = [calls EXCEPT ![NewCall] =
                 [IdleCall EXCEPT !.pc = "returned", !.outcome = "ignored"]]
  /\ UNCHANGED <<messages, newMessage, isLoading, conversations,
                 currentConversationId, isStreamingEnabled, pendingHistory,
                 pendingDelete, loadPending, dispatched>>

\* catch (error): push the error message
CatchReplacesLast(msgs, err) ==
  IF msgs = << >> THEN <<ErrorMessage(err)>>
  ELSE [msgs EXCEPT ![Len(msgs)] = ErrorMessage(err)]
Catch(msgs, err) == Append(msgs, ErrorMessage(err))

\* the fetch resolves with one of the bodies the server may answer with:
\* choose the branch, and in the streaming one push the empty assistant message
FetchResolve(c, bodies) ==
  /\ Quiescent
  /\ calls[c].pc = "fetch"
  /\ \E body \in bodies :
       calls' = [calls EXCEPT ![c].pc = "read",
                              ![c].streaming = isStreamingEnabled,
                              ![c].wire = Flatten(body),
                              ![c].body = body]
  /\ messages' = IF isStreamingEnabled THEN Append(messages, Placeholder)
                 ELSE messages
  /\ UNCHANGED <<newMessage, isLoading, conversations, currentConversationId,
                 isStreamingEnabled, pendingHistory, pendingDelete, loadPending,
                 dispatched>>

\* the fetch rejects: catch, finally
FetchRejectRetries(c) ==
  /\ Quiescent
  /\ calls[c].pc = "fetch"
  /\ dispatched' = dispatched + 1
  /\ UNCHANGED <<messages, newMessage, isLoading, conversations,
                 currentConversationId, isStreamingEnabled, calls,
                 pendingHistory, pendingDelete, loadPending>>
FetchReject(c) ==
  /\ Quiescent
  /\ calls[c].pc = "fetch"
  /\ messages' = Catch(messages, NetworkError)
  /\ isLoading' = FALSE
  /\ calls' = [calls EXCEPT ![c].pc = "returned", ![c].outcome = "failed",
                            ![c].error = NetworkError]
  /\ UNCHANGED <<newMessage, conversations, currentConversationId,
                 isStreamingEnabled, pendingHistory, pendingDelete, loadPending,
                 dispatched>>

\* the server sends one more frame of the response
ServerSend(c, frames, max) ==
  /\ Quiescent
  /\ calls[c].pc = "read"
  /\ calls[c].frames < max
  /\ Len(calls[c].wire) < FrameLen * MaxBuffered
  /\ \E f \in frames :
       calls' = [calls EXCEPT ![c].wire = @ \o f, ![c].frames = @ + 1]
  /\ UNCHANGED <<messages, newMessage, isLoading, conversations,
                 currentConversationId, isStreamingEnabled, pendingHistory,
                 pendingDelete, loadPending, dispatched>>

\* reader.read() resolves with a chunk of n tokens: decode and split it
ReadChunk(c, n) ==
  /\ Quiescent
  /\ calls[c].pc = "read"
  /\ n \in 1..Len(calls[c].wire)
  /\ calls' = [calls EXCEPT
                 ![c].pc = "loop",
                 ![c].lines = Split(SubSeq(calls[c].wire, 1, n)),
                 ![c].wire = SubSeq(calls[c].wire, n + 1, Len(calls[c].wire))]
  /\ UNCHANGED <<messages, newMessage, isLoading, conversations,
                 currentConversationId, isStreamingEnabled, pendingHistory,
                 pendingDelete, loadPending, dispatched>>

\* reader.read() resolves with done: break, finally
ReadDoneKeepsLoading(c) ==
  /\ Quiescent
  /\ calls[c].pc = "read"
  /\ calls' = [calls EXCEPT ![c].pc = "returned", ![c].outcome = "ended"]
  /\ UNCHANGED <<messages, newMessage, isLoading, conversations,
                 currentConversationId, isStreamingEnabled, pendingHistory,
                 pendingDelete, loadPending, dispatched>>
ReadDone(c) ==
  /\ Quiescent
  /\ calls[c].pc = "read"
  /\ isLoading' = FALSE
  /\ calls' = [calls EXCEPT ![c].pc = "returned", ![c].outcome = "ended"]
  /\ UNCHANGED <<messages, newMessage, conversations, currentConversationId,
                 isStreamingEnabled, pendingHistory, pendingDelete, loadPending,
                 dispatched>>

\* reader.read() rejects: catch, finally
ReadReject(c) ==
  /\ Quiescent
  /\ calls[c].pc = "read"
  /\ messages' = Catch(messages, NetworkError)
  /\ isLoading' = FALSE
  /\ calls' = [calls EXCEPT ![c].pc = "returned", ![c].outcome = "failed",
                            ![c].error = NetworkError]
  /\ UNCHANGED <<newMessage, conversations, currentConversationId,
                 isStreamingEnabled, pendingHistory, pendingDelete, loadPending,
                 dispatched>>

\* ------------------------------------------------------------------ the switch on data.type
\* What one pass of the loop body works on: the component's lists, the locals
\* of the call, and whether the pass threw (and with which message).
Throw(S, err) == [S EXCEPT !.thrown = TRUE, !.err = err]

\* fullReasoning += data.content, fullResponse += data.content
AppendDeltaOverwrites(acc, text) == text
AppendDelta(acc, text) == acc \o text

\* this.messages[this.messages.length - 1] is undefined on an empty list, and
\* setting a property of undefined throws a TypeError
CaseReasoningPushes(S, d) ==
  LET acc == AppendDelta(S.fullReasoning, d.content)
      S1 == [S EXCEPT !.fullReasoning = acc]
  IN [S1 EXCEPT !.messages = Append(S.messages, FinalMessage(NoText, acc))]
CaseReasoning(S, d) ==
  LET acc == AppendDelta(S.fullReasoning, d.content)
      S1 == [S EXCEPT !.fullReasoning = acc]
  IN IF S.messages = << >> THEN Throw(S1, TypeError)
     ELSE [S1 EXCEPT !.messages[Len(S.messages)].reasoning = acc]

CaseAnswerStart(S, d) ==
  IF S.messages = << >> THEN Throw(S, TypeError)
  ELSE [S EXCEPT !.messages[Len(S.messages)].isAnswering = TRUE]

CaseAnswerKeepsLoading(S, d) ==
  LET acc == AppendDelta(S.fullResponse, d.content)
      S1 == [S EXCEPT !.fullResponse = acc]
  IN IF S.messages = << >> THEN Throw(S1, TypeError)
     ELSE [S1 EXCEPT !.messages[Len(S.messages)].content = acc]
CaseAnswer(S, d) ==
  LET acc == AppendDelta(S.fullResponse, d.content)
      S1 == [S EXCEPT !.fullResponse = acc]
  IN IF S.messages = << >> THEN Throw(S1, TypeError)
     ELSE [S1 EXCEPT
             !.messages[Len(S.messages)].content = acc,
             !.messages[Len(S.messages)].isStreaming =
                IF acc # NoText THEN FALSE ELSE @]

\* this.conversations.map(conv => conv.id === this.currentConversationId
\*   ? { ...conv, messages: data.messages } : conv)
Reconcile(convs, current, snapshot) ==
  [i \in 1..Len(convs) |->
     IF convs[i].id = current THEN [convs[i] EXCEPT !.messages = snapshot]
     ELSE convs[i]]

CaseDone(S, snapshot, current) ==
  [S EXCEPT !.isComplete = TRUE,
            !.conversations = Reconcile(S.conversations, current, snapshot)]

\* throw new Error(data.error)
CaseErrorGeneric(S, d) == Throw(S, <<"Error">>)
CaseError(S, d) == Throw(S, d.error)

\* the streaming branch
StreamingSwitchStrict(S, d, snapshot, current) ==
  CASE d.type = "reasoning"    -> CaseReasoning(S, d)
    [] d.type = "answer_start" -> CaseAnswerStart(S, d)
    [] d.type = "answer"       -> CaseAnswer(S, d)
    [] d.type = "done"         -> CaseDone(S, snapshot, current)
    [] d.type = "error"        -> CaseError(S, d)
    [] OTHER                   -> Throw(S, TypeError)
StreamingSwitch(S, d, snapshot, current) ==
  CASE d.type = "reasoning"    -> CaseReasoning(S, d)
    [] d.type = "answer_start" -> CaseAnswerStart(S, d)
    [] d.type = "answer"       -> CaseAnswer(S, d)
    [] d.type = "done"         -> CaseDone(S, snapshot, current)
    [] d.type = "error"        -> CaseError(S, d)
    [] OTHER                   -> S

\* the non-streaming branch
BufferedSwitch(S, d, snapshot, current) ==
  CASE d.type = "reasoning" ->
         [S EXCEPT !.fullReasoning = AppendDelta(S.fullReasoning, d.content)]
    [] d.type = "answer" ->
         [S EXCEPT !.fullResponse = AppendDelta(S.fullResponse, d.content)]
    [] d.type = "done" ->
         CaseDone([S EXCEPT !.messages =
                     Append(S.messages,
                            FinalMessage(S.fullResponse, S.fullReasoning))],
                  snapshot, current)
    [] d.type = "error" -> CaseError(S, d)
    [] OTHER -> S

\* one pass of for (const line of lines)
LoopBodyLenient(S, line, streaming, snapshot, current) ==
  IF ~StartsWith(line, Prefix) THEN S
  ELSE LET r == ParseJSON(Slice(line, Prefix)) IN
       IF ~r.ok THEN S
       ELSE IF streaming THEN StreamingSwitch(S, r.data, snapshot, current)
       ELSE BufferedSwitch(S, r.data, snapshot, current)
LoopBodyStrict(S, line, streaming, snapshot, current) ==
  IF ~StartsWith(line, Prefix) THEN Throw(S, SyntaxError)
  ELSE LET r == ParseJSON(Slice(line, Prefix)) IN
       IF ~r.ok THEN Throw(S, SyntaxError)
       ELSE IF streaming THEN StreamingSwitch(S, r.data, snapshot, current)
       ELSE BufferedSwitch(S, r.data, snapshot, current)
LoopBody(S, line, streaming, snapshot, current) ==
  IF ~StartsWith(line, Prefix) THEN S
  ELSE LET r == ParseJSON(Slice(line, Prefix)) IN
       IF ~r.ok THEN Throw(S, SyntaxError)
       ELSE IF streaming THEN StreamingSwitch(S, r.data, snapshot, current)
       ELSE BufferedSwitch(S, r.data, snapshot, current)

\* the event of a piece that reaches a switch
Reaches(line) == StartsWith(line, Prefix) /\ ParseJSON(Slice(line, Prefix)).ok
Event(line) == ParseJSON(Slice(line, Prefix)).data

\* one piece of the chunk goes through the loop body; a throw leaves both
\* loops (and the pieces not looked at yet) for the catch and the finally, the
\* last piece goes back to the read
ProcessLine(c) ==
  /\ calls[c].pc = "loop"
  /\ LET k == calls[c]
         line == Head(k.lines)
         rest == Tail(k.lines)
         S == LoopBody([messages |-> messages, conversations |-> conversations,
                        fullResponse |-> k.fullResponse,
                        fullReasoning |-> k.fullReasoning,
                        isComplete |-> k.isComplete,
                        thrown |-> FALSE, err |-> NoText],
                       line, k.streaming, Snapshot(k.reqConv, k.req),
                       currentConversationId)
     IN /\ messages' = IF S.thrown THEN Catch(S.messages, S.err) ELSE S.messages
        /\ conversations' = S.conversations
        /\ isLoading' = IF S.thrown THEN FALSE ELSE isLoading
        /\ calls' = [calls EXCEPT ![c] =
             [k EXCEPT !.fullResponse = S.fullResponse,
                       !.fullReasoning = S.fullReasoning,
                       !.isComplete = S.isComplete,
                       !.delivered = IF Reaches(line)
                                       THEN Deliver(@, Event(line)) ELSE @,
                       !.lines = rest,
                       !.outcome = IF S.thrown THEN "failed" ELSE @,
                       !.error = S.err,
                       !.pc = IF S.thrown THEN "returned"
                              ELSE IF rest = << >> THEN "read" ELSE "loop"]]
  /\ UNCHANGED <<newMessage, currentConversationId, isStreamingEnabled,
                 pendingHistory, pendingDelete, loadPending, dispatched>>

\* the whole of a call from the resolved fetch on, for a body read to its end:
\* the pieces in their order until one throws, then the catch
RECURSIVE RunLines(_, _, _, _, _)
RunLines(S, lines, streaming, snapshot, current) ==
  IF lines = << >> \/ S.thrown THEN S
  ELSE RunLines(LoopBody(S, Head(lines), streaming, snapshot, current),
                Tail(lines), streaming, snapshot, current)

RunBody(msgs, convs, body, streaming, snapshot, current) ==
  LET S0 == [messages |-> IF streaming THEN Append(msgs, Placeholder) ELSE msgs,
             conversations |-> convs,
             fullResponse |-> NoText, fullReasoning |-> NoText,
             isComplete |-> FALSE, thrown |-> FALSE, err |-> NoText]
      S == RunLines(S0, Split(Flatten(body)), streaming, snapshot, current)
  IN [messages |-> IF S.thrown THEN Catch(S.messages, S.err) ELSE S.messages,
      conversations |-> S.conversations]

\* ------------------------------------------------------------------ specifications
\* the steps of sendMessage after its entry
Stream(bodies, cuts) ==
  \/ \E c \in Calls : FetchResolve(c, bodies)
  \/ \E c \in Calls : FetchReject(c)
  \/ \E c \in Calls, n \in cuts : ReadChunk(c, n)
  \/ \E c \in Calls : ReadDone(c)
  \/ \E c \in Calls : ReadReject(c)
  \/ \E c \in Calls : ProcessLine(c)

\* a conversation has been chosen, its history is shown (or is still on its
\* way), a message is typed, nothing is in flight
InitSelected ==
  /\ conversations = ServerConversations
  /\ currentConversationId = 1
  /\ messages \in {<< >>, HistoryMessages(History(1))}
  /\ newMessage = <<"h">>
  /\ isLoading = FALSE
  /\ isStreamingEnabled \in BOOLEAN
  /\ calls = [c \in Calls |-> IdleCall]
  /\ pendingHistory = [i \in ConvIds |-> 0]
  /\ pendingDelete = {}
  /\ loadPending = FALSE
  /\ dispatched = 0

\* Spec: one message is sent and its response arrives frame by frame and is
\* read in whole frames, with nothing else going on
Next ==
  \/ dispatched = 0 /\ SendMessage
  \/ ToggleStreaming
  \/ \E c \in Calls : ServerSend(c, ReducerFrames, MaxFrames)
  \/ Stream({<< >>}, FrameCuts)

Spec == InitSelected /\ [][Next]_vars

\* SpecChunks: one message is sent and its response, there as a whole, is read
\* in chunks cut at any place
NextChunks ==
  \/ dispatched = 0 /\ SendMessage
  \/ Stream(ChunkedBodies, AnyCuts)

SpecChunks == InitSelected /\ [][NextChunks]_vars

\* SpecSwitch: the component from its creation; conversations are switched
\* while a response arrives
NextSwitch ==
  \/ LoadConversationsResolve
  \/ LoadConversationsReject
  \/ \E i \in ConvIds :
        PendingTotal(pendingHistory) < MaxPending /\ SwitchConversation(i)
  \/ \E i \in ConvIds : HistoryResolve(i)
  \/ \E i \in ConvIds : HistoryReject(i)
  \/ TypeMessage(<<"h">>)
  \/ dispatched < MaxSends /\ SendMessage
  \/ SendMessageIgnored
  \/ \E c \in Calls : ServerSend(c, SwitchFrames, MaxSwitchFrames)
  \/ Stream({<< >>}, FrameCuts)

SpecSwitch == InitMounted /\ [][NextSwitch]_vars

\* SpecGuard: the component from its creation; sendMessage is called at any
\* time, also while a call waits for its response or reads it; the response
\* ends, is cut off, or carries error events, which end the call inside the
\* loop
GuardFrames == {FrameOf("ERR")}

NextGuard ==
  \/ LoadConversationsResolve
  \/ LoadConversationsReject
  \/ \E i \in ConvIds :
        PendingTotal(pendingHistory) < MaxPending /\ SwitchConversation(i)
  \/ \E i \in ConvIds : HistoryResolve(i)
  \/ \E i \in ConvIds : HistoryReject(i)
  \/ \E t \in Typed : TypeMessage(t)
  \/ dispatched < MaxSends /\ SendMessage
  \/ SendMessageIgnored
  \/ \E c \in Calls : ServerSend(c, GuardFrames, MaxSwitchFrames)
  \/ Stream({<< >>}, FrameCuts)

SpecGuard == InitMounted /\ [][NextGuard]_vars

\* SpecFrames: one message is sent; the response is a body of events mixed
\* with frames of an unknown type, comment lines and broken frames, read in
\* whole frames
Comment == <<":", " ", "keep", "alive">> \o Terminator
MixedFrames ==
  {FrameOf(b) : b \in {"R:x", "AS", "A:x", "A:", "DONE", "ERR", "PING"}}
    \cup {Comment, Malformed}
MixedBodies == SeqsUpTo(MixedFrames, MaxMixedFrames)

NextFrames ==
  \/ dispatched = 0 /\ SendMessage
  \/ Stream(MixedBodies, FrameCuts)

SpecFrames == InitSelected /\ [][NextFrames]_vars

\* SpecResidual: one message is sent; the response may end with a frame that
\* lacks its terminator, and is cut anywhere
Unterminated(b) == Prefix \o <<b, "}">>
ResidualEvents == {"R:x", "A:x", "DONE"}
ResidualBodies ==
  {fs \o last : fs \in SeqsUpTo({FrameOf(b) : b \in ResidualEvents},
                                MaxResidualFrames - 1),
               last \in {<<f>> : f \in {FrameOf(b) : b \in ResidualEvents}
                                      \cup {Unterminated(b) : b \in ResidualEvents}}}
ResidualCuts == 1..(FrameLen * MaxResidualFrames)

NextResidual ==
  \/ dispatched = 0 /\ SendMessage
  \/ Stream(ResidualBodies, ResidualCuts)

SpecResidual == InitSelected /\ [][NextResidual]_vars

\* SpecRace: the component from its creation; a conversation is switched to
\* while the history of the one chosen before is still on its way; one message
\* is sent and answered
RaceBodies == {<<FrameOf("A:x")>>}

NextRace ==
  \/ LoadConversationsResolve
  \/ LoadConversationsReject
  \/ \E i \in ConvIds :
        PendingTotal(pendingHistory) < MaxRacing /\ SwitchConversation(i)
  \/ \E i \in ConvIds : HistoryResolve(i)
  \/ \E i \in ConvIds : HistoryReject(i)
  \/ TypeMessage(<<"h">>)
  \/ dispatched = 0 /\ SendMessage
  \/ Stream(RaceBodies, FrameCuts)

SpecRace == InitMounted /\ [][NextRace]_vars

\* SpecDelete: text is typed and sendMessage is called at any time, one message
\* is sent; conversations are deleted, the one shown among them, before the
\* message is sent, while the response is on its way or while it is read
DeleteBodies == {<<FrameOf(b)>> : b \in {"R:x", "DONE"}}

NextDelete ==
  \/ \E t \in Typed : TypeMessage(t)
  \/ dispatched = 0 /\ SendMessage
  \/ SendMessageIgnored
  \/ \E i \in ConvIds : DeleteConversation(i)
  \/ \E i \in ConvIds : DeleteResolve(i)
  \/ \E i \in ConvIds : DeleteReject(i)
  \/ Stream(DeleteBodies, FrameCuts)

SpecDelete == InitSelected /\ [][NextDelete]_vars

\* SpecLive: one message is sent; the fetch settles, every read settles, and
\* the loop over a chunk runs on: the continuation of a settled promise is run
\* by the event loop, and the transport closes or fails in the end
LiveFrames == {FrameOf(b) : b \in {"R:x", "A:x", "DONE", "ERR"}} \cup {Malformed}
LiveBodies == SeqsUpTo(LiveFrames, MaxLiveFrames)

NextLive ==
  \/ dispatched = 0 /\ SendMessage
  \/ Stream(LiveBodies, FrameCuts)

SpecLive ==
  InitSelected /\ [][NextLive]_vars /\ WF_vars(Stream(LiveBodies, FrameCuts))

\* ------------------------------------------------------------------ properties
Last(msgs) == msgs[Len(msgs)]

\* the conversation shown is no longer the one the request of call c named
Superseded(c) == calls[c].reqConv # currentConversationId

\* the step in which call c fails (its catch runs)
FailStep(c) == calls[c].outcome # "failed" /\ calls'[c].outcome = "failed"

ErrorCount(msgs) == Cardinality({i \in 1..Len(msgs) : msgs[i].isError})

InFlightCalls == {c \in Calls : calls[c].pc \in InFlight}

\* C1: once the conversation has been switched, no piece of the chunks a
\* streaming call still reads changes the message list (no text written, no
\* error message appended).
C1_StaleEventsLeaveMessages ==
  [][\A c \in Calls :
       (calls[c].streaming /\ calls[c].pc = "loop" /\ Superseded(c))
       => messages' = messages]_vars

\* what reaches the switch when the whole body is one chunk
RECURSIVE DeliverAll(_, _)
DeliverAll(dl, lines) ==
  IF lines = << >> THEN dl
  ELSE DeliverAll(IF Reaches(Head(lines)) THEN Deliver(dl, Event(Head(lines)))
                  ELSE dl,
                  Tail(lines))
DeliveredWhole(body) == DeliverAll(NothingDelivered, Split(Flatten(body)))

EventFrames ==
  {FrameOf(b) : b \in {"R:x", "R:y", "AS", "A:x", "A:y", "A:", "DONE", "PING"}}

\* C2: when a streaming call has read a body of well-formed frames to its end,
\* however it was cut into chunks, the call has not failed and the events that
\* reached the switch are those of the frames, in their order.
C2_ChunkBoundaryIndependence ==
  \A c \in Calls :
    (/\ calls[c].streaming
     /\ calls[c].pc \in {"read", "returned"}
     /\ calls[c].wire = << >>
     /\ calls[c].error # NetworkError
     /\ \A i \in 1..Len(calls[c].body) : calls[c].body[i] \in EventFrames)
    => /\ calls[c].outcome # "failed"
       /\ calls[c].delivered = DeliveredWhole(calls[c].body)

\* C3: in a streaming call that has not failed, as long as the events follow
\* the order reasoning*, answer_start, answer*, done, the assistant message
\* holds the reasoning texts and the answer texts concatenated in their order
\* of arrival, repeated ones included.
C3_DeltasConcatenateInOrder ==
  \A c \in Calls :
    (/\ calls[c].streaming
     /\ calls[c].pc \in {"read", "loop", "returned"}
     /\ calls[c].outcome # "failed"
     /\ calls[c].delivered.shape # "off")
    => /\ messages # << >>
       /\ Last(messages).reasoning = calls[c].delivered.reasoning
       /\ Last(messages).content = calls[c].delivered.answer

\* the whole order has been delivered, a repeated reasoning text in it
C3_Witness ==
  \E c \in Calls :
    /\ calls[c].streaming
    /\ calls[c].outcome = "ended"
    /\ calls[c].delivered.shape = "done"
    /\ calls[c].delivered.reasoning = <<"x", "x">>
    /\ Last(messages).reasoning = <<"x", "x">>

\* C4: after a done event, no piece of the same stream changes the assistant
\* message.
C4_FrozenAfterDone ==
  [][\A c \in Calls :
       (calls[c].streaming /\ calls[c].isComplete /\ calls[c].pc = "loop")
       => /\ Len(messages') >= Len(messages)
          /\ messages'[Len(messages)] = Last(messages)]_vars

\* C5: a streaming call whose transport ended after some deltas and before
\* any done has appended an error message behind the assistant message, which
\* keeps the deltas.
C5_EndWithoutDoneIsFailure ==
  \A c \in Calls :
    (/\ calls[c].streaming
     /\ calls[c].pc = "returned"
     /\ calls[c].outcome = "ended"
     /\ ~calls[c].isComplete
     /\ calls[c].delivered # NothingDelivered)
    => /\ Len(messages) >= 2
       /\ Last(messages).isError
       /\ messages[Len(messages) - 1].reasoning = calls[c].delivered.reasoning
       /\ messages[Len(messages) - 1].content = calls[c].delivered.answer

\* C6: the step in which a call fails appends one message and changes no
\* message that was there; in a streaming call the assistant message then
\* holds what the call had accumulated; the failure does not set isComplete,
\* and a call that has failed never sets it.
C6_FailureKeepsAccumulated ==
  [][\A c \in Calls :
       /\ FailStep(c) =>
            /\ Len(messages') = Len(messages) + 1
            /\ \A i \in 1..Len(messages) : messages'[i] = messages[i]
            /\ calls'[c].isComplete = calls[c].isComplete
            /\ calls[c].streaming =>
                 /\ messages'[Len(messages)].reasoning = calls[c].fullReasoning
                 /\ messages'[Len(messages)].content = calls[c].fullResponse
       /\ calls[c].outcome = "failed" =>
            calls'[c].isComplete = calls[c].isComplete]_vars

\* a broken frame after a reasoning and an answer text
C6_Witness ==
  \E c \in Calls :
    /\ calls[c].streaming
    /\ calls[c].outcome = "failed"
    /\ calls[c].error = SyntaxError
    /\ calls[c].fullReasoning # NoText
    /\ calls[c].fullResponse # NoText
    /\ ~calls[c].isComplete
    /\ Last(messages).isError
    /\ messages[Len(messages) - 1].reasoning = calls[c].fullReasoning
    /\ messages[Len(messages) - 1].content = calls[c].fullResponse

\* C7: once the assistant message is in its answering phase (answer_start
\* applied, or answer text there), no piece of the stream changes its
\* reasoning.
C7_NoReasoningAfterAnswering ==
  [][\A c \in Calls :
       (/\ calls[c].streaming
        /\ calls[c].pc = "loop"
        /\ messages # << >>
        /\ (Last(messages).isAnswering \/ Last(messages).content # NoText))
       => /\ Len(messages') >= Len(messages)
          /\ messages'[Len(messages)].reasoning = Last(messages).reasoning]_vars

\* a call of sendMessage in this step: an activation that starts, or one that
\* returned at the guard
Invoked(c) ==
  /\ calls'[c] # calls[c]
  /\ \/ calls'[c].pc = "fetch"
     \/ calls'[c].pc = "returned" /\ calls'[c].outcome = "ignored"

\* C8: a call of sendMessage made while another one is in flight changes
\* nothing of the component and posts no request, and there is never more than
\* one call in flight.
C8_OneStreamAtATime ==
  [][/\ (InFlightCalls # {} /\ \E c \in Calls : Invoked(c))
          => UNCHANGED <<data, dispatched>>
     /\ Cardinality(InFlightCalls') <= 1]_vars

\* sendMessage has been called while a call was in flight, the conversation
\* switched
C8_Witness ==
  \E c, d \in Calls :
    /\ calls[c].pc \in InFlight
    /\ Superseded(c)
    /\ isLoading
    /\ calls[d].pc = "returned" /\ calls[d].outcome = "ignored"

\* C9: a piece of a stream whose conversation is no longer the one shown
\* changes no entry of the conversations list.
C9_StaleDoneLeavesConversations ==
  [][\A c \in Calls :
       (calls[c].pc = "loop" /\ Superseded(c))
       => conversations' = conversations]_vars

\* C10: the step in which a call fails appends exactly one message, flagged
\* isError and not a user message, ends the call and does not set isComplete;
\* after it the call does nothing: nothing more reaches its switch and no
\* second error message appears.
C10_OneFlaggedErrorThenStop ==
  [][\A c \in Calls :
       /\ FailStep(c) =>
            /\ messages' = Append(messages, Last(messages'))
            /\ Last(messages').isError /\ ~Last(messages').isUser
            /\ ErrorCount(messages') = ErrorCount(messages) + 1
            /\ calls'[c].pc = "returned"
            /\ calls'[c].isComplete = calls[c].isComplete
       /\ calls[c].outcome = "failed" =>
            /\ calls'[c] = calls[c]
            /\ ErrorCount(messages') = ErrorCount(messages)]_vars

\* a call has failed with a frame of the same chunk left behind
C10_Witness ==
  \E c \in Calls :
    /\ calls[c].outcome = "failed"
    /\ \E i \in 1..Len(calls[c].lines) : StartsWith(calls[c].lines[i], Prefix)
    /\ ErrorCount(messages) = 1
    /\ Last(messages).isError

\* C11: in either mode, the reasoning and the answer text a call had received
\* when it failed are shown by a message of the list.
C11_PartialContentVisible ==
  \A c \in Calls :
    (/\ calls[c].outcome = "failed"
     /\ (calls[c].fullReasoning # NoText \/ calls[c].fullResponse # NoText))
    => \E i \in 1..Len(messages) :
         /\ ~messages[i].isUser /\ ~messages[i].isError
         /\ messages[i].reasoning = calls[c].fullReasoning
         /\ messages[i].content = calls[c].fullResponse

\* C12: when the last piece of the last chunk of a response has no terminator
\* after it (the body ends there), that piece is dropped: nothing reaches the
\* switch, the lists stay as they are and the call does not fail on it.
C12_ResidualDiscarded ==
  [][\A c \in Calls :
       (/\ calls[c].pc = "loop"
        /\ Len(calls[c].lines) = 1
        /\ calls[c].lines[1] # << >>
        /\ calls[c].wire = << >>)
       => /\ calls'[c].delivered = calls[c].delivered
          /\ calls'[c].isComplete = calls[c].isComplete
          /\ messages' = messages
          /\ conversations' = conversations
          /\ calls'[c].outcome # "failed"]_vars

\* the piece the loop of call c is at
Piece(c) == Head(calls[c].lines)

\* C13: a piece with the frame prefix whose payload does not parse fails the
\* call in that step: the error message of the SyntaxError is appended, the
\* call ends with the pieces behind it unprocessed, and what it had
\* accumulated is untouched.
C13_MalformedPropagates ==
  [][\A c \in Calls :
       (/\ calls[c].pc = "loop"
        /\ StartsWith(Piece(c), Prefix)
        /\ ~ParseJSON(Slice(Piece(c), Prefix)).ok)
       => /\ FailStep(c)
          /\ calls'[c].pc = "returned"
          /\ calls'[c].error = SyntaxError
          /\ calls'[c].lines = Tail(calls[c].lines)
          /\ calls'[c].delivered = calls[c].delivered
          /\ messages' = Append(messages, ErrorMessage(SyntaxError))
          /\ conversations' = conversations
          /\ isLoading' = FALSE]_vars

\* a broken frame between two events: the call failed on it and the event
\* behind it was never applied
C13_Witness ==
  \E c \in Calls :
    /\ calls[c].body = <<FrameOf("R:x"), Malformed, FrameOf("A:x")>>
    /\ calls[c].outcome = "failed"
    /\ calls[c].error = SyntaxError
    /\ calls[c].delivered.reasoning = <<"x">>
    /\ calls[c].delivered.answer = NoText
    /\ Last(messages) = ErrorMessage(SyntaxError)

\* the types the switches have a case for
KnownTypes == {"reasoning", "answer_start", "answer", "done", "error"}

\* where the loop of call c stands after a piece that did not throw
Continues(c) ==
  /\ calls'[c].lines = Tail(calls[c].lines)
  /\ calls'[c].pc = IF Tail(calls[c].lines) = << >> THEN "read" ELSE "loop"
  /\ calls'[c].outcome = calls[c].outcome
  /\ isLoading' = isLoading

\* C14: a frame that parses and whose type has no case changes neither list
\* nor the accumulated text, appends no error message, and the loop goes on
\* with the next piece.
C14_UnknownTypeIgnored ==
  [][\A c \in Calls :
       (/\ calls[c].pc = "loop"
        /\ Reaches(Piece(c))
        /\ Event(Piece(c)).type \notin KnownTypes)
       => /\ messages' = messages
          /\ conversations' = conversations
          /\ calls'[c].fullResponse = calls[c].fullResponse
          /\ calls'[c].fullReasoning = calls[c].fullReasoning
          /\ calls'[c].isComplete = calls[c].isComplete
          /\ Continues(c)]_vars

\* a frame of an unknown type, then a reasoning text that was applied
C14_Witness ==
  \E c \in Calls :
    /\ calls[c].streaming
    /\ calls[c].body = <<FrameOf("PING"), FrameOf("R:x")>>
    /\ calls[c].outcome = "ended"
    /\ ErrorCount(messages) = 0
    /\ Last(messages).reasoning = <<"x">>

\* C15: a piece that does not start with the frame prefix is skipped: neither
\* list changes, nothing reaches a switch, the accumulated text stays, the
\* call does not fail, and the loop goes on with the next piece.
C15_UnprefixedPieceSkipped ==
  [][\A c \in Calls :
       (calls[c].pc = "loop" /\ ~StartsWith(Piece(c), Prefix))
       => /\ messages' = messages
          /\ conversations' = conversations
          /\ calls'[c].delivered = calls[c].delivered
          /\ calls'[c].fullResponse = calls[c].fullResponse
          /\ calls'[c].fullReasoning = calls[c].fullReasoning
          /\ calls'[c].isComplete = calls[c].isComplete
          /\ calls'[c].error = calls[c].error
          /\ Continues(c)]_vars

\* a comment line, then a reasoning text that was applied
C15_Witness ==
  \E c \in Calls :
    /\ calls[c].streaming
    /\ calls[c].body = <<Comment, FrameOf("R:x")>>
    /\ calls[c].outcome = "ended"
    /\ ErrorCount(messages) = 0
    /\ Last(messages).reasoning = <<"x">>

\* the message is shown as answering: the indicator of the reasoning phase
\* (v-if="message.isStreaming && !message.isAnswering") is gone
Answering(m) == m.isAnswering \/ ~m.isStreaming

\* C16: an answer event applied by a streaming call to a message that no
\* answer_start has reached is appended to the content, and the message is
\* answering after it.
C16_AnswerWithoutStartAccepted ==
  [][\A c \in Calls :
       (/\ calls[c].streaming
        /\ calls[c].pc = "loop"
        /\ Reaches(Piece(c))
        /\ Event(Piece(c)).type = "answer"
        /\ ~Last(messages).isAnswering)
       => /\ Continues(c)
          /\ Len(messages') = Len(messages)
          /\ Last(messages').content =
               Last(messages).content \o Event(Piece(c)).content
          /\ Answering(Last(messages'))]_vars

\* the list up to the last message of the user: what a call started from
Sent(msgs) ==
  LET u == {i \in 1..Len(msgs) : msgs[i].isUser} IN
  IF u = {} THEN << >>
  ELSE SubSeq(msgs, 1, CHOOSE i \in u : \A j \in u : j <= i)

\* the answers behind the last message of the user: content and reasoning of
\* the messages that are neither the user's nor error messages
RECURSIVE AnswersIn(_)
AnswersIn(msgs) ==
  IF msgs = << >> THEN << >>
  ELSE (IF Head(msgs).isUser \/ Head(msgs).isError THEN << >>
        ELSE <<[content |-> Head(msgs).content,
                reasoning |-> Head(msgs).reasoning]>>)
       \o AnswersIn(Tail(msgs))
Replies(msgs) == AnswersIn(SubSeq(msgs, Len(Sent(msgs)) + 1, Len(msgs)))

\* call c has gone through its response: to its end, or to the piece that
\* made it fail
WentThrough(c) ==
  /\ calls[c].pc = "returned"
  /\ \/ calls[c].outcome = "ended" /\ calls[c].wire = << >>
     \/ calls[c].outcome = "failed" /\ calls[c].error # NetworkError

\* some reasoning or answer text has reached the switch of call c
ReceivedText(c) ==
  calls[c].delivered.reasoning # NoText \/ calls[c].delivered.answer # NoText

\* C17: when a call has gone through a response that carried some text, the
\* lists are those the body gives in the mode of the call, and the same body
\* gives in the other mode the same answers (content and reasoning) and the
\* same conversations list.
C17_ModesAgree ==
  \A c \in Calls :
    (WentThrough(c) /\ ReceivedText(c)) =>
      LET snapshot == Snapshot(calls[c].reqConv, calls[c].req)
          s == RunBody(Sent(messages), ServerConversations, calls[c].body,
                       TRUE, snapshot, currentConversationId)
          b == RunBody(Sent(messages), ServerConversations, calls[c].body,
                       FALSE, snapshot, currentConversationId)
          mine == IF calls[c].streaming THEN s ELSE b
      IN /\ messages = mine.messages
         /\ conversations = mine.conversations
         /\ Replies(s.messages) = Replies(b.messages)
         /\ s.conversations = b.conversations

\* the loop of call c is at an error event
AtErrorEvent(c) ==
  /\ calls[c].pc = "loop"
  /\ Reaches(Piece(c))
  /\ Event(Piece(c)).type = "error"

\* C18 as stated: the text of the message appended for an error event is the
\* error string of the event.
C18_ErrorTextVerbatim ==
  [][\A c \in Calls :
       AtErrorEvent(c) =>
         /\ FailStep(c)
         /\ Last(messages').isError
         /\ Last(messages').content = Event(Piece(c)).error]_vars

\* C18 amended: the message appended for an error event is flagged isError and
\* its text is the fixed prefix of the catch followed by the error string of
\* the event, unchanged.
C18_ErrorTextPrefixed ==
  [][\A c \in Calls :
       AtErrorEvent(c) =>
         /\ FailStep(c)
         /\ messages' = Append(messages, Last(messages'))
         /\ Last(messages').isError
         /\ Last(messages').content = ErrorPrefix \o Event(Piece(c)).error]_vars

\* a call has failed on an error event and its text is shown behind the prefix
C18_Witness ==
  \E c \in Calls :
    /\ calls[c].outcome = "failed"
    /\ calls[c].error = <<"boom">>
    /\ Last(messages).isError
    /\ Last(messages).content = ErrorPrefix \o <<"boom">>

\* the loop of call c is at a done event with no reasoning and no answer text
\* accumulated
AtEmptyDone(c) ==
  /\ calls[c].pc = "loop"
  /\ Reaches(Piece(c))
  /\ Event(Piece(c)).type = "done"
  /\ calls[c].fullReasoning = NoText
  /\ calls[c].fullResponse = NoText

\* C19: a done event with nothing accumulated is accepted: the call goes on
\* without failing and is complete, no error message is appended and no
\* request is posted, and the last message is the assistant's, with empty
\* content and reasoning and no longer streaming.
C19_EmptyDoneAccepted ==
  [][\A c \in Calls :
       AtEmptyDone(c) =>
         /\ Continues(c)
         /\ calls'[c].isComplete
         /\ ErrorCount(messages') = ErrorCount(messages)
         /\ dispatched' = dispatched
         /\ ~Last(messages').isUser /\ ~Last(messages').isError
         /\ Last(messages').content = NoText
         /\ Last(messages').reasoning = NoText
         /\ ~Last(messages').isStreaming]_vars

\* call c enters its fetch in this step
Starts(c) == calls[c].pc \notin InFlight /\ calls'[c].pc = "fetch"

\* C20: a request is posted only by the entry of a call the guard accepted,
\* one request for one call; a call in flight never returns to its fetch, and
\* the step in which a call fails posts nothing and leaves no call in flight.
C20_NoAutomaticRetry ==
  [][/\ dispatched' # dispatched =>
          /\ dispatched' = dispatched + 1
          /\ SendGuard
          /\ Cardinality({c \in Calls : Starts(c)}) = 1
     /\ \A c \in Calls :
          /\ Starts(c) => dispatched' = dispatched + 1
          /\ (calls[c].pc \in {"read", "loop"}) => calls'[c].pc # "fetch"
          /\ FailStep(c) => dispatched' = dispatched /\ InFlightCalls' = {}]_vars

\* a call has failed, one request was posted in all, nothing is in flight,
\* and the user has typed the next message
C20_Witness ==
  \E c \in Calls :
    /\ calls[c].outcome = "failed"
    /\ dispatched = 1
    /\ InFlightCalls = {}
    /\ ~isLoading
    /\ NonBlank(newMessage)

\* no message shows text and the still-loading flag together
LoadingOnlyWhileEmpty(msgs) ==
  \A i \in 1..Len(msgs) : msgs[i].content # NoText => ~msgs[i].isStreaming

\* call c, in the streaming branch, is about to process an answer event
AtAnswerEvent(c) ==
  /\ calls[c].pc = "loop"
  /\ calls[c].streaming
  /\ Reaches(Piece(c))
  /\ Event(Piece(c)).type = "answer"

\* C21: in every state, a message whose content is non-empty has isStreaming
\* cleared; and an answer delta after which the content of the live message is
\* still empty leaves its isStreaming as it was.
C21_LoadingClearedByContent ==
  [][/\ LoadingOnlyWhileEmpty(messages)
     /\ LoadingOnlyWhileEmpty(messages')
     /\ \A c \in Calls :
          (AtAnswerEvent(c) /\ messages # << >>
             /\ Last(messages').content = NoText)
          => /\ Len(messages') = Len(messages)
             /\ Last(messages').isStreaming = Last(messages).isStreaming]_vars

\* an empty answer delta came first and left the flag set, a non-empty one
\* followed: the message shows the text and the flag is cleared
C21_Witness ==
  \E c \in Calls :
    /\ calls[c].streaming
    /\ Len(calls[c].body) >= 2
    /\ calls[c].body[1] = FrameOf("A:")
    /\ calls[c].body[2] = FrameOf("A:x")
    /\ calls[c].delivered.answer = <<"x">>
    /\ calls[c].outcome = "none"
    /\ Last(messages).content = <<"x">>
    /\ ~Last(messages).isStreaming

\* msgs without its last element
Earlier(msgs) == SubSeq(msgs, 1, Len(msgs) - 1)

C23_SettledHistoryIsCurrent ==
  [][\A a \in ConvIds :
       (/\ pendingHistory'[a] < pendingHistory[a]
        /\ PendingTotal(pendingHistory') = 0
        /\ messages' = HistoryMessages(History(a)))
       => a = currentConversationId']_vars

\* C24: in every state in which currentConversationId is null the message
\* list is empty, also while a call of sendMessage for the conversation that
\* was deleted still runs, and after it has failed.
C24_NoConversationNoMessages ==
  currentConversationId = Null => messages = << >>

\* C25: once a call of sendMessage that took the streaming branch has
\* finished (done received, stream ended, or failure), no message of the list
\* has isStreaming set.
C25_NoLoadingFlagAfterFinish ==
  \A c \in Calls :
    (calls[c].pc = "returned" /\ calls[c].streaming) =>
      \A i \in 1..Len(messages) : ~messages[i].isStreaming

\* C26: isLoading is true in exactly the states in which a call of sendMessage
\* is in flight (from its entry, before the fetch is awaited, to its return
\* by any path), and whenever it is true it becomes false later on.
C26_LoadingWhileInFlight ==
  /\ [](isLoading <=> InFlightCalls # {})
  /\ isLoading ~> ~isLoading

\* a call has returned through the catch after a broken frame, another has
\* returned at the end of its stream: isLoading is false again
C26_Witness ==
  \E c \in Calls :
    /\ calls[c].pc = "returned"
    /\ calls[c].outcome = "failed"
    /\ calls[c].error = SyntaxError
    /\ calls[c].delivered.reasoning # NoText
    /\ dispatched = 1
    /\ ~isLoading

\* C27: when an accepted call of sendMessage has finished, the message list
\* ends with a message that is not the user's (an answer, the placeholder or
\* an error message), in either mode and also when the stream ended without
\* a done event.
C27_ReplyAfterUserMessage ==
  \A c \in Calls :
    (calls[c].pc = "returned" /\ calls[c].outcome # "ignored") =>
      /\ messages # << >>
      /\ ~Last(messages).isUser

\* C28: a call of sendMessage made while the input is empty or white space
\* only, or while no conversation is selected, returns at the guard: messages,
\* conversations, newMessage and isLoading are as before and no request is
\* posted.
C28_GuardedCallIsNoOp ==
  [][\A c \in Calls :
       (Invoked(c) /\ (~NonBlank(newMessage) \/ currentConversationId = Null))
       => /\ calls'[c].outcome = "ignored"
          /\ messages' = messages
          /\ conversations' = conversations
          /\ newMessage' = newMessage
          /\ isLoading' = isLoading
          /\ dispatched' = dispatched]_vars

\* sendMessage has returned at the guard, and the state is one in which only
\* the missing conversation stops a call: text is typed, nothing is in flight,
\* the conversation shown has been deleted
C28_Witness ==
  \E c \in Calls :
    /\ calls[c].pc = "returned" /\ calls[c].outcome = "ignored"
    /\ currentConversationId = Null
    /\ NonBlank(newMessage)
    /\ ~isLoading
    /\ dispatched = 0
    /\ messages = << >>
====
